---------------------------- MODULE Spec2Model ----------------------------
(***************************************************************************)
(* A model of the SLURM job clients of slurm_agent:                        *)
(*   - MockSlurmClient        (src/slurm_interface.py, lines 25-68)        *)
(*   - ParamikoSlurmClient    (src/slurm_interface.py, lines 70-174)       *)
(*   - AtomGPTAgent.run_job   (src/agent.py, lines 98-141)                 *)
(*                                                                         *)
(* Text is modelled as a sequence of one-character strings, so that the    *)
(* string operations of the code (in, strip, startswith, split,            *)
(* splitlines, replace) are computed and not assumed.  Job ids are the     *)
(* integers whose decimal text the code handles (str is injective).        *)
(***************************************************************************)
EXTENDS Integers, Sequences, FiniteSets, TLC

VARIABLES
    now,        \* time.time(), in whole seconds
    jobs,       \* MockSlurmClient.jobs : id -> record
    issued,     \* ghost: the calls of MockSlurmClient.submit_job, in order: id returned, time
    ret,        \* ghost: the last completed call of the mock client and its result
    job_files,  \* ParamikoSlurmClient.job_files : job id -> output filename pattern
    rfiles,     \* the remote working directory: filename -> content
    cluster,    \* the remote scheduler: job id -> script, phase, final state, accounting
    fetch,      \* the running get_job_output call of the remote client
    rissued,    \* ghost: the job ids ParamikoSlurmClient.submit_job returned, in order
    rret,       \* ghost: the last completed call of the remote client and its result
    agent,      \* AtomGPTAgent.run_job: where it is, its locals and what it returned
    conn,       \* ParamikoSlurmClient.connect: the calls made and what the last one returned
    demo,       \* ssh_demo.main: where it is and its locals
    clients     \* two ParamikoSlurmClient instances of one account: their submit_job calls

mockVars == <<jobs, issued, ret>>
remoteVars == <<job_files, rfiles, cluster, fetch, rissued, rret>>
sessionVars == <<conn, demo, clients>>
vars == <<now, jobs, issued, ret, job_files, rfiles, cluster, fetch, rissued, rret, agent,
          conn, demo, clients>>

---------------------------------------------------------------------------
(* Bounds of the model *)

\* the clock runs from 0 to MaxTime seconds
MaxTime == 6
\* random.randint(1000, 9999) is drawn from MockIdLo .. MockIdLo + NumMockIds - 1
NumMockIds == 2
\* at most MaxSubmits calls of MockSlurmClient.submit_job
MaxSubmits == 2
\* the remote scheduler accepts at most MaxRemoteJobs jobs
MaxRemoteJobs == 1

---------------------------------------------------------------------------
(* Text helpers: Python's str operations on sequences of characters *)

Range(s) == {s[i] : i \in DOMAIN s}

Whitespace == {" ", "\t", "\n"}

\* sub in s
Contains(s, sub) ==
    \E i \in 0..(Len(s) - Len(sub)) : SubSeq(s, i + 1, i + Len(sub)) = sub

\* s.startswith(p)
StartsWith(s, p) == Len(s) >= Len(p) /\ SubSeq(s, 1, Len(p)) = p

Min(S) == CHOOSE x \in S : \A y \in S : x <= y

\* (in the recursive helpers the argument is bound by a set constructor, so
\* that it is evaluated once and not at each of its uses)
RECURSIVE LStrip(_)
LStrip(s) ==
    CHOOSE r \in {IF v = <<>> THEN v
                  ELSE IF Head(v) \in Whitespace THEN LStrip(Tail(v)) ELSE v
                  : v \in {s}} : TRUE

RECURSIVE RStrip(_)
RStrip(s) ==
    CHOOSE r \in {IF v = <<>> THEN v
                  ELSE IF v[Len(v)] \in Whitespace THEN RStrip(SubSeq(v, 1, Len(v) - 1))
                  ELSE v
                  : v \in {s}} : TRUE

\* s.strip()
Strip(s) == RStrip(LStrip(s))

\* s.split(c) for a one-character separator c
RECURSIVE SplitOn(_, _)
SplitOn(s, c) ==
    LET at == {i \in DOMAIN s : s[i] = c}
    IN IF at = {} THEN <<s>>
       ELSE <<SubSeq(s, 1, Min(at) - 1)>> \o SplitOn(SubSeq(s, Min(at) + 1, Len(s)), c)

\* s.splitlines(), the line break being "\n"
SplitLines(s) ==
    IF s = <<>> THEN <<>>
    ELSE LET parts == SplitOn(s, "\n")
         IN IF s[Len(s)] = "\n" THEN SubSeq(parts, 1, Len(parts) - 1) ELSE parts

\* s.split(): the words between runs of whitespace
RECURSIVE SplitWords(_)
SplitWords(s) ==
    CHOOSE r \in
        {IF t = <<>> THEN <<>>
         ELSE IF \A i \in DOMAIN t : t[i] \notin Whitespace THEN <<t>>
         ELSE CHOOSE q \in {<<SubSeq(t, 1, m - 1)>> \o SplitWords(SubSeq(t, m + 1, Len(t)))
                            : m \in {Min({i \in DOMAIN t : t[i] \in Whitespace})}} : TRUE
         : t \in {LStrip(s)}} : TRUE

\* s.replace(old, new), old not empty
RECURSIVE Replace(_, _, _)
Replace(s, old, new) ==
    IF Len(s) < Len(old) THEN s
    ELSE IF SubSeq(s, 1, Len(old)) = old
         THEN new \o Replace(SubSeq(s, Len(old) + 1, Len(s)), old, new)
         ELSE <<Head(s)>> \o Replace(Tail(s), old, new)

\* str(n) / f"{n}" of a natural number
RECURSIVE DecimalText(_)
DecimalText(n) ==
    LET digit == <<"0", "1", "2", "3", "4", "5", "6", "7", "8", "9">>
    IN IF n < 10 THEN <<digit[n + 1]>>
       ELSE DecimalText(n \div 10) \o <<digit[(n % 10) + 1]>>

---------------------------------------------------------------------------
(* MockSlurmClient *)

MockIdLo == 1000
MockIds == MockIdLo..(MockIdLo + NumMockIds - 1)

Terminal == {"COMPLETED", "FAILED", "CANCELLED", "TIMEOUT", "NODE_FAIL"}

\* scripts handed to the mock client: with and almost with "python"
ScriptPython == <<"p", "y", "t", "h", "o", "n", "3", " ", "a">>
ScriptNear == <<"p", "y", "t", "h", "o", " ", "n">>
MockScripts == {ScriptPython, ScriptNear}

PythonWord == <<"p", "y", "t", "h", "o", "n">>

NoCall == [op |-> "none"]

\* (mutant) the thresholds compared with <= instead of <
MockStatusAtInclusive(elapsed) ==
    IF elapsed <= 2 THEN "PENDING"
    ELSE IF elapsed <= 5 THEN "RUNNING"
    ELSE "COMPLETED"

\* the state derived from the elapsed time (lines 51-56)
MockStatusAt(elapsed) ==
    IF elapsed < 2 THEN "PENDING"
    ELSE IF elapsed < 5 THEN "RUNNING"
    ELSE "COMPLETED"

\* (mutant) the heuristic looks for "py" instead of "python"
MockCannedOutputPy(job) ==
    IF job.output # "" THEN job.output
    ELSE IF Contains(job.script, <<"p", "y">>) THEN "Result: 42 (Mock Output)"
    ELSE "Job completed successfully."

\* the canned output of a completed job (lines 58-62)
MockCannedOutput(job) ==
    IF job.output # "" THEN job.output
    ELSE IF Contains(job.script, PythonWord) THEN "Result: 42 (Mock Output)"
    ELSE "Job completed successfully."

\* the record submit_job stores (lines 34-39)
MockNewJob(script, t) ==
    [status |-> "PENDING", script |-> script, submitted_at |-> t, output |-> ""]

\* submit_job(script_content), random.randint returning r
MockSubmitJob(script, r) ==
    /\ Len(issued) < MaxSubmits
    /\ jobs' = (r :> MockNewJob(script, now)) @@ jobs
    /\ issued' = Append(issued, [id |-> r, at |-> now])
    /\ ret' = [op |-> "submit", id |-> r, val |-> "", at |-> 0]
    /\ UNCHANGED now

\* get_job_status(job_id)
MockGetJobStatus(id) ==
    IF id \notin DOMAIN jobs
    THEN /\ ret' = [op |-> "status", id |-> id, val |-> "UNKNOWN", at |-> now]
         /\ UNCHANGED <<now, jobs, issued>>
    ELSE LET job == jobs[id]
             status == MockStatusAt(now - job.submitted_at)
             out == IF status = "COMPLETED" THEN MockCannedOutput(job) ELSE job.output
         IN /\ jobs' = [jobs EXCEPT ![id] = [job EXCEPT !.status = status, !.output = out]]
            /\ ret' = [op |-> "status", id |-> id, val |-> status, at |-> now]
            /\ UNCHANGED <<now, issued>>

\* (mutant) the output is derived from the elapsed time when it is asked for
MockStoredOutputLazy(id) ==
    IF id \notin DOMAIN jobs THEN "No output available."
    ELSE IF now - jobs[id].submitted_at >= 5 THEN MockCannedOutput(jobs[id])
    ELSE jobs[id].output

\* self.jobs.get(job_id, {}).get("output", "No output available.") (line 68)
MockStoredOutput(id) ==
    IF id \in DOMAIN jobs THEN jobs[id].output ELSE "No output available."

\* get_job_output(job_id) (lines 67-68)
MockGetJobOutput(id) ==
    /\ ret' = [op |-> "output", id |-> id, at |-> now, val |-> MockStoredOutput(id)]
    /\ UNCHANGED <<now, jobs, issued>>

\* the wall clock advances
Tick ==
    /\ now < MaxTime
    /\ now' = now + 1
    /\ UNCHANGED mockVars

---------------------------------------------------------------------------
(* Texts of ParamikoSlurmClient and of the remote commands *)

Directive == <<"#", "S", "B", "A", "T", "C", "H", " ", "-", "-", "o", "u", "t", "p", "u", "t", "=">>
DefaultPattern == <<"s", "l", "u", "r", "m", "-", "%", "j", ".", "o", "u", "t">>
Placeholder == <<"%", "j">>
TxtPENDING == <<"P", "E", "N", "D", "I", "N", "G">>
TxtRUNNING == <<"R", "U", "N", "N", "I", "N", "G">>
TxtCOMPLETING == <<"C", "O", "M", "P", "L", "E", "T", "I", "N", "G">>
TxtCOMPLETED == <<"C", "O", "M", "P", "L", "E", "T", "E", "D">>
TxtFAILED == <<"F", "A", "I", "L", "E", "D">>
TxtCANCELLED == <<"C", "A", "N", "C", "E", "L", "L", "E", "D">>
TxtTIMEOUT == <<"T", "I", "M", "E", "O", "U", "T">>
TxtNODE_FAIL == <<"N", "O", "D", "E", "_", "F", "A", "I", "L">>
TxtUNKNOWN == <<"U", "N", "K", "N", "O", "W", "N">>
SubmittedBanner == <<"S", "u", "b", "m", "i", "t", "t", "e", "d", " ", "b", "a", "t", "c", "h", " ", "j", "o", "b", " ">>
UploadFailedPrefix == <<"F", "a", "i", "l", "e", "d", " ", "t", "o", " ", "u", "p", "l", "o", "a", "d", " ", "s", "c", "r", "i", "p", "t", " ", "v", "i", "a", " ", "S", "F", "T", "P", ":", " ">>
SbatchFailedPrefix == <<"s", "b", "a", "t", "c", "h", " ", "f", "a", "i", "l", "e", "d", ":", " ">>
ParseFailedPrefix == <<"C", "o", "u", "l", "d", " ", "n", "o", "t", " ", "p", "a", "r", "s", "e", " ", "j", "o", "b", " ", "I", "D", " ", "f", "r", "o", "m", " ", "s", "b", "a", "t", "c", "h", " ", "o", "u", "t", "p", "u", "t", ":", " ">>
OutputFilePrefix == <<"O", "u", "t", "p", "u", "t", " ", "f", "i", "l", "e", " ">>
NotFoundSuffix == <<" ", "n", "o", "t", " ", "f", "o", "u", "n", "d", " ", "a", "f", "t", "e", "r", " ", "r", "e", "t", "r", "i", "e", "s", ".">>
JobPrefix == <<"j", "o", "b", "_">>
ShSuffix == <<".", "s", "h">>

\* the five states after which the pollers stop (agent.py line 126)
TerminalTexts == {TxtCOMPLETED, TxtFAILED, TxtCANCELLED, TxtTIMEOUT, TxtNODE_FAIL}

\* what the remote side can answer
ErrQuota == <<"D", "i", "s", "k", " ", "q", "u", "o", "t", "a", " ", "e", "x", "c", "e", "e", "d", "e", "d">>
ErrPartition == <<"s", "b", "a", "t", "c", "h", ":", " ", "e", "r", "r", "o", "r", ":", " ", "i", "n", "v", "a", "l", "i", "d", " ", "p", "a", "r", "t", "i", "t", "i", "o", "n", "\n">>
JobOutputText == <<"4", "2", "\n">>

\* scripts handed to the remote client: no output directive, a custom
\* pattern, and a pattern that holds a "="
ScriptPlain == <<"#", "!", "/", "b", "i", "n", "/", "b", "a", "s", "h", "\n", "e", "c", "h", "o", " ", "h", "i", "\n">>
ScriptCustom == <<"#", "!", "/", "b", "i", "n", "/", "b", "a", "s", "h", "\n", "#", "S", "B", "A", "T", "C", "H", " ", "-", "-", "o", "u", "t", "p", "u", "t", "=", "c", "u", "s", "t", "o", "m", "-", "%", "j", ".", "l", "o", "g", "\n", "p", "y", "t", "h", "o", "n", "3", " ", "a", ".", "p", "y", "\n">>
ScriptEquals == <<"#", "S", "B", "A", "T", "C", "H", " ", "-", "-", "o", "u", "t", "p", "u", "t", "=", "r", "u", "n", "=", "%", "j", ".", "l", "o", "g", "\n", "e", "c", "h", "o", "\n">>
RemoteScripts == {ScriptPlain, ScriptCustom, ScriptEquals}
\* a script whose output directive names the file the script is uploaded to
ScriptSelf == <<"#", "S", "B", "A", "T", "C", "H", " ", "-", "-", "o", "u", "t", "p", "u", "t", "=", "j", "o", "b", "_", "0", ".", "s", "h", "\n", "e", "c", "h", "o", "\n">>

---------------------------------------------------------------------------
(* The remote scheduler and file store, as seen through the SSH session *)

\* the scheduler numbers the jobs it accepts from FirstJobId on
FirstJobId == 77
SchedulerId(k) == DecimalText(FirstJobId + k)
\* the ids a caller may ask about: every id the scheduler can issue, and one more
QueryIds == {SchedulerId(k) : k \in 0..MaxRemoteJobs}

\* how a job that ran can end (a job cancelled while pending ends CANCELLED)
FinalStates == {TxtCOMPLETED, TxtFAILED, TxtTIMEOUT}
\* the state accounting shows for the batch step of a job that ended in state f
StepState(f) == IF f = TxtTIMEOUT THEN TxtCANCELLED ELSE f
\* the phase of a job that is no longer in the active queue
LeftQueue == <<>>

\* stdout of "squeue -j <id> -h -o %T": the state of a job in the active queue
SqueueStdout(id) ==
    IF id \in DOMAIN cluster /\ cluster[id].phase # LeftQueue
    THEN cluster[id].phase \o <<"\n">>
    ELSE <<>>

\* stdout of "sacct -j <id> -n -o State", once accounting has recorded the
\* job: a padded line for the job and, when it ran, one for its batch step
SacctStdout(id) ==
    IF id \in DOMAIN cluster /\ cluster[id].recorded
    THEN <<" ">> \o cluster[id].final \o <<" ", "\n">>
         \o (IF cluster[id].ran
             THEN <<" ">> \o StepState(cluster[id].final) \o <<" ", "\n">>
             ELSE <<>>)
    ELSE <<>>

\* the file a job writes its output to: the text after --output= on the
\* directive line of its script, or slurm-%j.out, with %j replaced by the id
SlurmOutputFile(script, id) ==
    LET lines == SplitLines(script)
        hits == {i \in DOMAIN lines : StartsWith(lines[i], Directive)}
        pattern == IF hits = {} THEN DefaultPattern
                   ELSE SubSeq(lines[Min(hits)], Len(Directive) + 1, Len(lines[Min(hits)]))
    IN Replace(pattern, Placeholder, id)

\* a pending job starts
SchedStart(id) ==
    /\ id \in DOMAIN cluster /\ cluster[id].phase = TxtPENDING
    /\ cluster' = [cluster EXCEPT ![id].phase = TxtRUNNING, ![id].ran = TRUE]
    /\ UNCHANGED <<now, job_files, rfiles, fetch, rissued, rret>>

\* a running job stops with final state f and waits for its epilog
SchedStop(id, f) ==
    /\ id \in DOMAIN cluster /\ cluster[id].phase = TxtRUNNING
    /\ cluster' = [cluster EXCEPT ![id].phase = TxtCOMPLETING, ![id].final = f]
    /\ UNCHANGED <<now, job_files, rfiles, fetch, rissued, rret>>

\* a job leaves the active queue: a stopped one, or a pending one that is cancelled
SchedLeave(id) ==
    /\ id \in DOMAIN cluster /\ cluster[id].phase \in {TxtCOMPLETING, TxtPENDING}
    /\ cluster' = [cluster EXCEPT
                     ![id].phase = LeftQueue,
                     ![id].final = IF cluster[id].phase = TxtPENDING
                                   THEN TxtCANCELLED ELSE cluster[id].final]
    /\ UNCHANGED <<now, job_files, rfiles, fetch, rissued, rret>>

\* accounting records a job that has left the queue (accounting lag)
AcctRecord(id) ==
    /\ id \in DOMAIN cluster /\ cluster[id].phase = LeftQueue /\ ~cluster[id].recorded
    /\ cluster' = [cluster EXCEPT ![id].recorded = TRUE]
    /\ UNCHANGED <<now, job_files, rfiles, fetch, rissued, rret>>

\* the output file of a job that has run becomes visible (filesystem latency)
OutputAppears(id) ==
    /\ id \in DOMAIN cluster
    /\ cluster[id].ran
    /\ SlurmOutputFile(cluster[id].script, id) \notin DOMAIN rfiles
    /\ rfiles' = (SlurmOutputFile(cluster[id].script, id) :> JobOutputText) @@ rfiles
    /\ UNCHANGED <<now, job_files, cluster, fetch, rissued, rret>>

---------------------------------------------------------------------------
(* ParamikoSlurmClient *)

max_retries == 10

\* _run_command: the exit status, and stdout and stderr stripped (lines 93-96)
RunCommand(code, stdout, stderr) ==
    [code |-> code, out |-> Strip(stdout), err |-> Strip(stderr)]

\* filename = f"job_{int(time.time())}.sh" (line 100)
ScriptFileName(t) == JobPrefix \o DecimalText(t) \o ShSuffix

\* the output pattern submit_job records for a script (lines 124-128)
OutputPattern(script) ==
    LET lines == SplitLines(script)
        hits == {i \in DOMAIN lines : StartsWith(Strip(lines[i]), Directive)}
    IN IF hits = {} THEN DefaultPattern
       ELSE SplitOn(Strip(lines[Min(hits)]), "=")[2]

\* what "sbatch <filename>" does and answers: the scheduler rejects the script,
\* or queues the file's content as a new job and prints its id, or queues it
\* and prints nothing
SbatchReplies == {"rejected", "accepted", "silent"}
Sbatch(reply, newid) ==
    CASE reply = "rejected" -> RunCommand(1, <<>>, ErrPartition)
      [] reply = "accepted" -> RunCommand(0, SubmittedBanner \o newid \o <<"\n">>, <<>>)
      [] reply = "silent" -> RunCommand(0, <<>>, <<>>)

QueuedJob(script) ==
    [script |-> script, phase |-> TxtPENDING, final |-> <<>>, recorded |-> FALSE, ran |-> FALSE]

\* the result of a completed call of the remote client
\* (ghost fields: args, the inputs of the call; cmds, the commands it ran;
\* before, job_files as the call found it; found, reads, cats, sleeps, how a
\* get_job_output call went)
Returned(op, id, val, cmds, before) ==
    [op |-> op, id |-> id, val |-> val, raised |-> FALSE, msg |-> <<>>,
     args |-> <<>>, cmds |-> cmds, before |-> before,
     found |-> FALSE, reads |-> 0, cats |-> 0, sleeps |-> 0]
Raised(op, id, msg, cmds, before) ==
    [op |-> op, id |-> id, val |-> <<>>, raised |-> TRUE, msg |-> msg,
     args |-> <<>>, cmds |-> cmds, before |-> before,
     found |-> FALSE, reads |-> 0, cats |-> 0, sleeps |-> 0]

FetchIdle ==
    [pc |-> "idle", id |-> <<>>, outfile |-> <<>>, i |-> 0, reads |-> 0, cats |-> 0, sleeps |-> 0]

\* (mutant) the exit status of sbatch is not looked at
SubmitResultNoExitCheck(script, uploadError, r, registry) ==
    LET words == SplitWords(r.out)
        job_id == words[Len(words)]
    IN IF uploadError # <<>>
       THEN Raised("submit", <<>>, UploadFailedPrefix \o uploadError, <<>>, registry)
       ELSE IF words = <<>>
       THEN Raised("submit", <<>>, ParseFailedPrefix \o r.out, <<"sbatch">>, registry)
       ELSE Returned("submit", job_id, job_id, <<"sbatch">>, registry)

\* what submit_job makes of the upload and of sbatch's answer r: the error it
\* raises, or the job id it returns (lines 102-120, 132)
SubmitResult(script, uploadError, r, registry) ==
    LET words == SplitWords(r.out)
        job_id == words[Len(words)]
    IN IF uploadError # <<>>
       THEN Raised("submit", <<>>, UploadFailedPrefix \o uploadError, <<>>, registry)
       ELSE IF r.code # 0
       THEN Raised("submit", <<>>, SbatchFailedPrefix \o r.err, <<"sbatch">>, registry)
       ELSE IF words = <<>>
       THEN Raised("submit", <<>>, ParseFailedPrefix \o r.out, <<"sbatch">>, registry)
       ELSE Returned("submit", job_id, job_id, <<"sbatch">>, registry)

\* submit_job(script_content): the upload raises uploadError (when not empty),
\* and sbatch answers with reply (lines 98-132)
ParamikoSubmitJob(script, uploadError, reply) ==
    LET filename == ScriptFileName(now)
        uploaded == (filename :> script) @@ rfiles
        newid == SchedulerId(Cardinality(DOMAIN cluster))
        r == Sbatch(reply, newid)
        res == SubmitResult(script, uploadError, r, job_files)
    IN /\ fetch.pc = "idle"
       /\ uploadError = <<>> /\ reply # "rejected" => Cardinality(DOMAIN cluster) < MaxRemoteJobs
       /\ rfiles' = IF uploadError = <<>> THEN uploaded ELSE rfiles
       /\ cluster' = IF uploadError = <<>> /\ reply # "rejected"
                     THEN (newid :> QueuedJob(uploaded[filename])) @@ cluster
                     ELSE cluster
       /\ rret' = [res EXCEPT !.args = <<uploadError, reply>>]
       /\ job_files' = IF res.raised THEN job_files
                       ELSE (res.id :> OutputPattern(script)) @@ job_files
       /\ rissued' = IF res.raised THEN rissued ELSE Append(rissued, res.id)
       /\ UNCHANGED <<now, fetch>>

\* (mutant) accounting is asked first, the active queue second
StatusResultAcctFirst(squeueOut, sacctOut) ==
    IF sacctOut # <<>>
    THEN [val |-> Strip(SplitWords(sacctOut)[1]), cmds |-> <<"sacct">>]
    ELSE IF squeueOut # <<>>
    THEN [val |-> Strip(squeueOut), cmds |-> <<"sacct", "squeue">>]
    ELSE [val |-> TxtCOMPLETED, cmds |-> <<"sacct", "squeue">>]

\* (mutant) no optimistic fallback: a job absent from both is not known
StatusResultNoFallback(squeueOut, sacctOut) ==
    IF squeueOut = <<>>
    THEN IF sacctOut # <<>>
         THEN [val |-> Strip(SplitWords(sacctOut)[1]), cmds |-> <<"squeue", "sacct">>]
         ELSE [val |-> TxtUNKNOWN, cmds |-> <<"squeue", "sacct">>]
    ELSE [val |-> Strip(squeueOut), cmds |-> <<"squeue">>]

\* the state get_job_status derives from the (stripped) answers of squeue
\* and sacct, and the commands it runs for it (lines 137-149)
StatusResult(squeueOut, sacctOut) ==
    IF squeueOut = <<>>
    THEN IF sacctOut # <<>>
         THEN [val |-> Strip(SplitWords(sacctOut)[1]), cmds |-> <<"squeue", "sacct">>]
         ELSE [val |-> TxtCOMPLETED, cmds |-> <<"squeue", "sacct">>]
    ELSE [val |-> Strip(squeueOut), cmds |-> <<"squeue">>]

\* get_job_status(job_id) (lines 134-149)
ParamikoGetJobStatus(id) ==
    LET sq == RunCommand(0, SqueueStdout(id), <<>>)
        sa == RunCommand(0, SacctStdout(id), <<>>)
        res == StatusResult(sq.out, sa.out)
    IN /\ fetch.pc = "idle"
       /\ rret' = Returned("status", id, res.val, res.cmds, job_files)
       /\ UNCHANGED <<now, job_files, rfiles, cluster, fetch, rissued>>

\* outfile = pattern.replace("%j", job_id) (lines 153-154)
OutputFileName(id) ==
    Replace(IF id \in DOMAIN job_files THEN job_files[id] ELSE DefaultPattern,
            Placeholder, id)

\* the text returned when every attempt failed (line 174)
NotFoundMessage(outfile) == OutputFilePrefix \o outfile \o NotFoundSuffix

\* get_job_output(job_id) is called: the filename is computed and the retry
\* loop is entered (lines 151-158)
GetJobOutputCall(id) ==
    /\ fetch.pc = "idle"
    /\ fetch' = [FetchIdle EXCEPT !.pc = "sftp", !.id = id, !.outfile = OutputFileName(id)]
    /\ UNCHANGED <<now, job_files, rfiles, cluster, rissued, rret>>

\* get_job_output returns val: the call's result and what it took
FetchReturn(val, found, reads, cats, sleeps) ==
    [Returned("output", fetch.id, val, <<>>, job_files)
        EXCEPT !.found = found, !.reads = reads, !.cats = cats, !.sleeps = sleeps]

\* one SFTP read of the loop: the content is returned, or IOError is raised
\* (the file is not there, or SFTP failed) and cat is tried next (lines 159-165)
FetchSftp(ok) ==
    /\ fetch.pc = "sftp"
    /\ ok => fetch.outfile \in DOMAIN rfiles
    /\ IF ok
       THEN /\ rret' = FetchReturn(rfiles[fetch.outfile], TRUE,
                                   fetch.reads + 1, fetch.cats, fetch.sleeps)
            /\ fetch' = FetchIdle
       ELSE /\ fetch' = [fetch EXCEPT !.pc = "cat", !.reads = @ + 1]
            /\ UNCHANGED rret
    /\ UNCHANGED <<now, job_files, rfiles, cluster, rissued>>

\* (mutant) the loop sleeps after every failed attempt, the last one too
MoreAttemptsAlways(i) == i < max_retries

\* whether attempt i is followed by a sleep and another attempt (line 171)
MoreAttempts(i) == i < max_retries - 1

\* the fallback "cat <outfile>" of the loop: its stripped stdout is returned
\* when it exits 0; otherwise the loop sleeps, or ends after the last attempt
\* with the not-found text (lines 166-174)
FetchCat ==
    LET r == IF fetch.outfile \in DOMAIN rfiles
             THEN RunCommand(0, rfiles[fetch.outfile], <<>>)
             ELSE RunCommand(1, <<>>, <<>>)
    IN /\ fetch.pc = "cat"
       /\ IF r.code = 0
          THEN /\ rret' = FetchReturn(r.out, TRUE, fetch.reads, fetch.cats + 1, fetch.sleeps)
               /\ fetch' = FetchIdle
          ELSE IF MoreAttempts(fetch.i)
          THEN /\ fetch' = [fetch EXCEPT !.pc = "sleep", !.cats = @ + 1]
               /\ UNCHANGED rret
          ELSE /\ rret' = FetchReturn(NotFoundMessage(fetch.outfile), FALSE,
                                      fetch.reads, fetch.cats + 1, fetch.sleeps)
               /\ fetch' = FetchIdle
       /\ UNCHANGED <<now, job_files, rfiles, cluster, rissued>>

\* time.sleep(3), then the next attempt, if the loop has one (lines 158, 171-174)
FetchSleep ==
    /\ fetch.pc = "sleep"
    /\ IF fetch.i + 1 < max_retries
       THEN /\ fetch' = [fetch EXCEPT !.pc = "sftp", !.i = @ + 1, !.sleeps = @ + 1]
            /\ UNCHANGED rret
       ELSE /\ rret' = FetchReturn(NotFoundMessage(fetch.outfile), FALSE,
                                   fetch.reads, fetch.cats, fetch.sleeps + 1)
            /\ fetch' = FetchIdle
    /\ UNCHANGED <<now, job_files, rfiles, cluster, rissued>>

---------------------------------------------------------------------------
(* Two ParamikoSlurmClient instances of one remote account *)

ClientNames == {"a", "b"}

\* an instance that has not called submit_job yet
\* (script, filename: the argument and the local of its submit_job call; ghost
\* fields: raised, whether the call raised; job_id, the id it returned)
ClientIdle ==
    [pc |-> "idle", script |-> <<>>, filename |-> <<>>, job_files |-> <<>>,
     job_id |-> <<>>, raised |-> FALSE]
TwoClients == [c \in ClientNames |-> ClientIdle]

\* the first step of submit_job(script_content) by instance c: the script is
\* written to job_<time>.sh in the account's directory (lines 100-104)
ClientUpload(c, script) ==
    LET filename == ScriptFileName(now)
    IN /\ clients[c].pc = "idle"
       /\ rfiles' = (filename :> script) @@ rfiles
       /\ clients' = [clients EXCEPT ![c] = [@ EXCEPT !.pc = "uploaded",
                                                     !.script = script,
                                                     !.filename = filename]]
       /\ UNCHANGED <<now, job_files, cluster, fetch, rissued, rret>>

\* the second step of the call: "sbatch <filename>" queues what the file
\* holds now, and the call raises or registers and returns the id
\* (lines 110-132)
ClientSbatch(c, reply) ==
    LET me == clients[c]
        newid == SchedulerId(Cardinality(DOMAIN cluster))
        res == SubmitResult(me.script, <<>>, Sbatch(reply, newid), me.job_files)
    IN /\ me.pc = "uploaded"
       /\ cluster' = IF reply # "rejected"
                     THEN (newid :> QueuedJob(rfiles[me.filename])) @@ cluster
                     ELSE cluster
       /\ clients' = [clients EXCEPT ![c] =
              [@ EXCEPT !.pc = "done", !.raised = res.raised, !.job_id = res.id,
                        !.job_files = IF res.raised THEN @
                                      ELSE (res.id :> OutputPattern(me.script)) @@ @]]
       /\ UNCHANGED <<now, job_files, rfiles, fetch, rissued, rret>>

---------------------------------------------------------------------------
(* ParamikoSlurmClient.connect *)

\* how a connection attempt can go: the session and its SFTP channel open,
\* client.connect raises, or open_sftp raises
ConnectOutcomes == {"ok", "refused", "nosftp"}

\* what connect returns: True, or False when either step raised (lines 85-91)
ConnectReturns(outcome) == outcome = "ok"

\* (calls: the calls of connect; attempts: the calls of client.connect;
\* outcome: how the last attempt went; returned: what the last call of
\* connect returned; raised: whether it raised)
NotConnected ==
    [calls |-> 0, attempts |-> 0, outcome |-> "none", returned |-> "none", raised |-> FALSE]
Connected ==
    [calls |-> 1, attempts |-> 1, outcome |-> "ok", returned |-> "True", raised |-> FALSE]

\* connect(): one attempt, its exception caught (lines 83-91)
Connect(outcome) ==
    conn' = [calls |-> conn.calls + 1, attempts |-> conn.attempts + 1,
             outcome |-> outcome,
             returned |-> IF ConnectReturns(outcome) THEN "True" ELSE "False",
             raised |-> FALSE]

\* (mutant) the caller goes on whatever connect returned
ProceedAlways(returned) == TRUE

\* "if not client.connect(): leave": the caller goes on only when connect
\* returned True (agent.py lines 39-41, ssh_demo.py lines 13-14)
ProceedAfterConnect(returned) == returned = "True"

---------------------------------------------------------------------------
(* AtomGPTAgent.run_job (src/agent.py) *)

\* the value run_job returns: None, or the output text
None == [some |-> FALSE, text |-> <<>>]
Some(text) == [some |-> TRUE, text |-> text]

\* (ghost fields: why, the return statement taken; polled, fetched, whether
\* this run called get_job_status, get_job_output; sawCompleted, whether a
\* poll of this run returned COMPLETED; submitRaised, whether submit_job raised)
AgentIdle ==
    [pc |-> "idle", script |-> <<>>, job_id |-> <<>>, status |-> <<>>,
     retval |-> None, why |-> "", polled |-> FALSE, fetched |-> FALSE,
     sawCompleted |-> FALSE, submitRaised |-> FALSE]

\* run_job returns val at the return statement named why
RunJobReturn(val, why) ==
    [agent EXCEPT !.pc = "returned", !.retval = val, !.why = why]

\* what generate_script can return: "" after an API error, or a stripped
\* script text (lines 45-96)
GeneratedScripts == {<<>>, Strip(ScriptCustom)}

\* confirm.lower() of the answers typed at the prompt (line 109)
Answers == {"y", "Y", "n", ""}
Lower(answer) == IF answer = "Y" THEN "y" ELSE answer

\* the loop ends on these states (line 126)
IsTerminal(status) == status \in TerminalTexts

\* (mutant) the output is fetched after any terminal state
ShouldFetchAnyTerminal(status) == status \in TerminalTexts

\* the output is fetched for this final state only (line 134)
ShouldFetch(status) == status = TxtCOMPLETED

\* run_job is called and generates the script (lines 99-104)
RunJobGenerate(script) ==
    /\ agent.pc = "idle"
    /\ agent' = IF script = <<>> THEN RunJobReturn(None, "generation")
                ELSE [agent EXCEPT !.pc = "confirm", !.script = script]
    /\ UNCHANGED <<now, remoteVars>>

\* the user answers the prompt (lines 108-111)
RunJobConfirm(answer) ==
    /\ agent.pc = "confirm"
    /\ agent' = IF Lower(answer) # "y" THEN RunJobReturn(None, "declined")
                ELSE [agent EXCEPT !.pc = "submit"]
    /\ UNCHANGED <<now, remoteVars>>

\* submit_job is called; its exception ends the run (lines 114-118)
RunJobSubmit(uploadError, reply) ==
    /\ agent.pc = "submit"
    /\ ParamikoSubmitJob(agent.script, uploadError, reply)
    /\ agent' = IF rret'.raised
                THEN [RunJobReturn(None, "submit") EXCEPT !.submitRaised = TRUE]
                ELSE [agent EXCEPT !.pc = "poll", !.job_id = rret'.val]

\* one turn of the monitoring loop: poll, then leave the loop on a terminal
\* state, to fetch the output or to return None (lines 123-127, 134-141)
RunJobPoll ==
    /\ agent.pc = "poll"
    /\ ParamikoGetJobStatus(agent.job_id)
    /\ LET status == rret'.val
           polled == [agent EXCEPT !.status = status, !.polled = TRUE,
                                   !.sawCompleted = @ \/ status = TxtCOMPLETED]
       IN agent' = IF ~IsTerminal(status) THEN [polled EXCEPT !.pc = "sleep"]
                   ELSE IF ShouldFetch(status) THEN [polled EXCEPT !.pc = "fetch"]
                   ELSE [polled EXCEPT !.pc = "returned", !.retval = None, !.why = "final"]

\* time.sleep(2) between two polls (line 128)
RunJobSleep ==
    /\ agent.pc = "sleep"
    /\ agent' = [agent EXCEPT !.pc = "poll"]
    /\ UNCHANGED <<now, remoteVars>>

\* (mutant) the interrupt ends the loop, and the run goes on to the results
AfterInterruptFetch == [RunJobReturn(None, "interrupted") EXCEPT !.pc = "fetch"]

\* the handler of KeyboardInterrupt: return None (lines 129-131)
AfterInterrupt == RunJobReturn(None, "interrupted")

\* KeyboardInterrupt in the monitoring loop (lines 122-131)
RunJobInterrupt ==
    /\ agent.pc \in {"poll", "sleep"}
    /\ agent' = AfterInterrupt
    /\ UNCHANGED <<now, remoteVars>>

\* get_job_output is called for the completed job (line 136)
RunJobFetch ==
    /\ agent.pc = "fetch"
    /\ GetJobOutputCall(agent.job_id)
    /\ agent' = [agent EXCEPT !.pc = "fetching", !.fetched = TRUE]

\* get_job_output has returned: run_job returns its text (lines 137-138)
RunJobReturnOutput ==
    /\ agent.pc = "fetching" /\ fetch.pc = "idle"
    /\ agent' = RunJobReturn(Some(rret.val), "completed")
    /\ UNCHANGED <<now, remoteVars>>

\* AtomGPTAgent(): the client is created and connected; the process exits
\* when connect returns False (lines 38-41)
AgentConstruct(outcome) ==
    /\ agent.pc = "init"
    /\ Connect(outcome)
    /\ agent' = [agent EXCEPT !.pc = IF ProceedAfterConnect(conn'.returned)
                                     THEN "idle" ELSE "exited"]
    /\ UNCHANGED <<now, remoteVars, demo, clients>>

\* the command loop asks for the next request and calls run_job again
\* (lines 147-154)
NextRequest ==
    /\ agent.pc = "returned"
    /\ agent' = AgentIdle
    /\ UNCHANGED <<now, remoteVars>>

---------------------------------------------------------------------------
(* ssh_demo.main (src/ssh_demo.py) *)

\* ssh_demo.main is not running
\* (ghost fields: polled, fetched, whether get_job_status, get_job_output
\* were called; raised, whether submit_job raised)
DemoOff == [pc |-> "off", job_id |-> <<>>, status |-> <<>>, polled |-> FALSE,
            fetched |-> FALSE, raised |-> FALSE]
DemoStart == [DemoOff EXCEPT !.pc = "start"]

\* slurm_script: the directive names the default pattern (lines 21-27)
ScriptDemo == <<"#", "!", "/", "b", "i", "n", "/", "b", "a", "s", "h", "\n", "#", "S", "B", "A", "T", "C", "H", " ", "-", "-", "o", "u", "t", "p", "u", "t", "=", "s", "l", "u", "r", "m", "-", "%", "j", ".", "o", "u", "t", "\n", "p", "y", "t", "h", "o", "n", "3", "\n">>

\* the demo's loop ends on these states (line 37)
DemoIsTerminal(status) == status \in {TxtCOMPLETED, TxtFAILED, TxtCANCELLED, TxtTIMEOUT}

\* main connects, and returns when connect returned False (lines 12-14)
DemoConnect(outcome) ==
    /\ demo.pc = "start"
    /\ Connect(outcome)
    /\ demo' = [demo EXCEPT !.pc = IF ProceedAfterConnect(conn'.returned)
                                   THEN "submit" ELSE "returned"]
    /\ UNCHANGED <<now, remoteVars, agent, clients>>

\* submit_job(slurm_script); its exception is printed and main ends
\* (lines 30-32, 52-53)
DemoSubmit(uploadError, reply) ==
    /\ demo.pc = "submit"
    /\ ParamikoSubmitJob(ScriptDemo, uploadError, reply)
    /\ demo' = IF rret'.raised
               THEN [demo EXCEPT !.pc = "returned", !.raised = TRUE]
               ELSE [demo EXCEPT !.pc = "poll", !.job_id = rret'.val]
    /\ UNCHANGED <<agent, conn, clients>>

\* one turn of the demo's loop: poll, then leave the loop on one of its
\* terminal states, to fetch the output or to end (lines 34-38, 41-50)
DemoPoll ==
    /\ demo.pc = "poll"
    /\ ParamikoGetJobStatus(demo.job_id)
    /\ LET status == rret'.val
           polled == [demo EXCEPT !.status = status, !.polled = TRUE]
       IN demo' = IF ~DemoIsTerminal(status) THEN [polled EXCEPT !.pc = "sleep"]
                  ELSE IF status = TxtCOMPLETED THEN [polled EXCEPT !.pc = "fetch"]
                  ELSE [polled EXCEPT !.pc = "returned"]
    /\ UNCHANGED <<agent, conn, clients>>

\* time.sleep(2) between two polls (line 39)
DemoSleep ==
    /\ demo.pc = "sleep"
    /\ demo' = [demo EXCEPT !.pc = "poll"]
    /\ UNCHANGED <<now, remoteVars, agent, conn, clients>>

\* get_job_output is called for the completed job (line 43)
DemoFetch ==
    /\ demo.pc = "fetch"
    /\ GetJobOutputCall(demo.job_id)
    /\ demo' = [demo EXCEPT !.pc = "fetching", !.fetched = TRUE]
    /\ UNCHANGED <<agent, conn, clients>>

\* get_job_output has returned: the output is printed and main ends
\* (lines 44-48)
DemoReturn ==
    /\ demo.pc = "fetching" /\ fetch.pc = "idle"
    /\ demo' = [demo EXCEPT !.pc = "returned"]
    /\ UNCHANGED <<now, remoteVars, agent, conn, clients>>

---------------------------------------------------------------------------
(* Specifications *)

\* no second client instance is at work
NoClients == <<>>

\* the client is connected, and only the caller under study uses it
SessionInit ==
    /\ conn = Connected
    /\ demo = DemoOff
    /\ clients = NoClients

MockClientInit ==
    /\ jobs = <<>>
    /\ issued = <<>>
    /\ ret = NoCall

RemoteClientInit ==
    /\ job_files = <<>>
    /\ rfiles = <<>>
    /\ cluster = <<>>
    /\ fetch = FetchIdle
    /\ rissued = <<>>
    /\ rret = NoCall
    /\ agent = AgentIdle

\* a MockSlurmClient, called in any order while the clock runs
MockInit ==
    /\ now = 0
    /\ MockClientInit
    /\ RemoteClientInit
    /\ SessionInit

MockNext ==
    \/ /\ \E s \in MockScripts, r \in MockIds : MockSubmitJob(s, r)
       /\ UNCHANGED <<remoteVars, agent, sessionVars>>
    \/ /\ \E id \in MockIds : MockGetJobStatus(id)
       /\ UNCHANGED <<remoteVars, agent, sessionVars>>
    \/ /\ \E id \in MockIds : MockGetJobOutput(id)
       /\ UNCHANGED <<remoteVars, agent, sessionVars>>
    \/ /\ Tick
       /\ UNCHANGED <<remoteVars, agent, sessionVars>>

SpecMock == MockInit /\ [][MockNext]_vars

\* the calls of a remote run all fall within one second of the clock
RemoteInit ==
    /\ now = 0
    /\ MockClientInit
    /\ RemoteClientInit
    /\ SessionInit

\* a connected ParamikoSlurmClient whose submit_job and get_job_status are
\* called in any order, with any id, while the scheduler runs the jobs
RemoteNext ==
    \/ /\ \E s \in {ScriptPlain, ScriptCustom}, e \in {<<>>, ErrQuota}, reply \in SbatchReplies :
             ParamikoSubmitJob(s, e, reply)
       /\ UNCHANGED <<mockVars, agent, sessionVars>>
    \/ /\ \E id \in QueryIds : ParamikoGetJobStatus(id)
       /\ UNCHANGED <<mockVars, agent, sessionVars>>
    \/ /\ \E id \in QueryIds : SchedStart(id)
       /\ UNCHANGED <<mockVars, agent, sessionVars>>
    \/ /\ \E id \in QueryIds, f \in FinalStates : SchedStop(id, f)
       /\ UNCHANGED <<mockVars, agent, sessionVars>>
    \/ /\ \E id \in QueryIds : SchedLeave(id)
       /\ UNCHANGED <<mockVars, agent, sessionVars>>
    \/ /\ \E id \in QueryIds : AcctRecord(id)
       /\ UNCHANGED <<mockVars, agent, sessionVars>>

SpecRemote == RemoteInit /\ [][RemoteNext]_vars

\* a connected ParamikoSlurmClient whose submit_job and get_job_output are
\* called in any order, with any id, while jobs start and their output
\* files become visible
FetchNext ==
    \/ /\ \E s \in RemoteScripts, reply \in SbatchReplies : ParamikoSubmitJob(s, <<>>, reply)
       /\ UNCHANGED <<mockVars, agent, sessionVars>>
    \/ /\ \E id \in QueryIds : GetJobOutputCall(id)
       /\ UNCHANGED <<mockVars, agent, sessionVars>>
    \/ /\ \E ok \in BOOLEAN : FetchSftp(ok)
       /\ UNCHANGED <<mockVars, agent, sessionVars>>
    \/ /\ FetchCat
       /\ UNCHANGED <<mockVars, agent, sessionVars>>
    \/ /\ FetchSleep
       /\ UNCHANGED <<mockVars, agent, sessionVars>>
    \/ /\ \E id \in QueryIds : SchedStart(id)
       /\ UNCHANGED <<mockVars, agent, sessionVars>>
    \/ /\ \E id \in QueryIds : OutputAppears(id)
       /\ UNCHANGED <<mockVars, agent, sessionVars>>

SpecFetch == RemoteInit /\ [][FetchNext]_vars

\* a connected ParamikoSlurmClient that uploads a script with submit_job and
\* reads the uploaded file back with get_job_output, the job not having
\* started
RoundTripNext ==
    \/ /\ \E reply \in SbatchReplies : ParamikoSubmitJob(ScriptSelf, <<>>, reply)
       /\ UNCHANGED <<mockVars, agent, sessionVars>>
    \/ /\ \E id \in QueryIds : GetJobOutputCall(id)
       /\ UNCHANGED <<mockVars, agent, sessionVars>>
    \/ /\ \E ok \in BOOLEAN : FetchSftp(ok)
       /\ UNCHANGED <<mockVars, agent, sessionVars>>
    \/ /\ FetchCat
       /\ UNCHANGED <<mockVars, agent, sessionVars>>
    \/ /\ FetchSleep
       /\ UNCHANGED <<mockVars, agent, sessionVars>>

SpecRoundTrip == RemoteInit /\ [][RoundTripNext]_vars

\* one of the two drivers is started: python agent.py, or python ssh_demo.py
DriverInit ==
    /\ now = 0
    /\ MockClientInit
    /\ job_files = <<>> /\ rfiles = <<>> /\ cluster = <<>>
    /\ fetch = FetchIdle /\ rissued = <<>> /\ rret = NoCall
    /\ conn = NotConnected
    /\ clients = NoClients
    /\ \/ agent = [AgentIdle EXCEPT !.pc = "init"] /\ demo = DemoOff
       \/ agent = [AgentIdle EXCEPT !.pc = "off"] /\ demo = DemoStart

\* two connected instances of one account, each calling submit_job once,
\* their uploads and sbatch commands interleaved while the clock runs
TwoClientsInit ==
    /\ now = 0
    /\ MockClientInit
    /\ RemoteClientInit
    /\ conn = Connected
    /\ demo = DemoOff
    /\ clients = TwoClients

TwoClientsNext ==
    \/ /\ \E c \in ClientNames, script \in {ScriptPlain, ScriptCustom} : ClientUpload(c, script)
       /\ UNCHANGED <<mockVars, agent, conn, demo>>
    \/ /\ \E c \in ClientNames, reply \in SbatchReplies : ClientSbatch(c, reply)
       /\ UNCHANGED <<mockVars, agent, conn, demo>>
    \/ /\ Tick
       /\ UNCHANGED <<remoteVars, agent, sessionVars>>

SpecTwoClients == TwoClientsInit /\ [][TwoClientsNext]_vars

\* an AtomGPTAgent whose client is connected: run_job is called request after
\* request while the scheduler runs the jobs
AgentNext ==
    \/ /\ \E s \in GeneratedScripts : RunJobGenerate(s)
       /\ UNCHANGED <<mockVars, sessionVars>>
    \/ /\ \E a \in Answers : RunJobConfirm(a)
       /\ UNCHANGED <<mockVars, sessionVars>>
    \/ /\ \E e \in {<<>>, ErrQuota}, reply \in SbatchReplies : RunJobSubmit(e, reply)
       /\ UNCHANGED <<mockVars, sessionVars>>
    \/ /\ RunJobPoll
       /\ UNCHANGED <<mockVars, sessionVars>>
    \/ /\ RunJobSleep
       /\ UNCHANGED <<mockVars, sessionVars>>
    \/ /\ RunJobInterrupt
       /\ UNCHANGED <<mockVars, sessionVars>>
    \/ /\ RunJobFetch
       /\ UNCHANGED <<mockVars, sessionVars>>
    \/ /\ \E ok \in BOOLEAN : FetchSftp(ok)
       /\ UNCHANGED <<mockVars, agent, sessionVars>>
    \/ /\ FetchCat
       /\ UNCHANGED <<mockVars, agent, sessionVars>>
    \/ /\ FetchSleep
       /\ UNCHANGED <<mockVars, agent, sessionVars>>
    \/ /\ RunJobReturnOutput
       /\ UNCHANGED <<mockVars, sessionVars>>
    \/ /\ NextRequest
       /\ UNCHANGED <<mockVars, sessionVars>>
    \/ /\ \E id \in QueryIds : SchedStart(id)
       /\ UNCHANGED <<mockVars, agent, sessionVars>>
    \/ /\ \E id \in QueryIds, f \in FinalStates : SchedStop(id, f)
       /\ UNCHANGED <<mockVars, agent, sessionVars>>
    \/ /\ \E id \in QueryIds : SchedLeave(id)
       /\ UNCHANGED <<mockVars, agent, sessionVars>>
    \/ /\ \E id \in QueryIds : AcctRecord(id)
       /\ UNCHANGED <<mockVars, agent, sessionVars>>
    \/ /\ \E id \in QueryIds : OutputAppears(id)
       /\ UNCHANGED <<mockVars, agent, sessionVars>>

SpecAgent == RemoteInit /\ [][AgentNext]_vars

\* the monitoring loop is scheduled (a poll that is due is taken, a sleep
\* ends), and the scheduler moves every job on until it has left the active
\* queue; accounting may record a job late, or never
LivePoll == RunJobPoll /\ UNCHANGED <<mockVars, sessionVars>>
LiveSleep == RunJobSleep /\ UNCHANGED <<mockVars, sessionVars>>
LiveSched(id) ==
    /\ SchedStart(id) \/ (\E f \in FinalStates : SchedStop(id, f)) \/ SchedLeave(id)
    /\ UNCHANGED <<mockVars, agent, sessionVars>>
AgentFairness ==
    /\ WF_vars(LivePoll)
    /\ WF_vars(LiveSleep)
    /\ \A id \in QueryIds : WF_vars(LiveSched(id))

SpecAgentLive == RemoteInit /\ [][AgentNext]_vars /\ AgentFairness

\* a driver from its start: the client is created and connected, then the
\* agent serves its requests, or the demo runs its one job, while the
\* scheduler runs the jobs (a node failure included)
DriverNext ==
    \/ /\ \E outcome \in ConnectOutcomes : AgentConstruct(outcome)
       /\ UNCHANGED mockVars
    \/ AgentNext
    \/ /\ \E outcome \in ConnectOutcomes : DemoConnect(outcome)
       /\ UNCHANGED mockVars
    \/ /\ \E e \in {<<>>, ErrQuota}, reply \in SbatchReplies : DemoSubmit(e, reply)
       /\ UNCHANGED mockVars
    \/ /\ DemoPoll
       /\ UNCHANGED mockVars
    \/ /\ DemoSleep
       /\ UNCHANGED mockVars
    \/ /\ DemoFetch
       /\ UNCHANGED mockVars
    \/ /\ DemoReturn
       /\ UNCHANGED mockVars
    \/ /\ \E id \in QueryIds : SchedStop(id, TxtNODE_FAIL)
       /\ UNCHANGED <<mockVars, agent, sessionVars>>

SpecDrivers == DriverInit /\ [][DriverNext]_vars

---------------------------------------------------------------------------
(* Claims about MockSlurmClient *)

\* the time of the latest submit_job call that returned id
LastSubmitTime(id) ==
    LET hits == {i \in DOMAIN issued : issued[i].id = id}
    IN issued[CHOOSE i \in hits : \A j \in hits : j <= i].at

\* C1: the job ids returned by the submit_job calls of one client instance are
\* pairwise distinct (so no later submit replaces an earlier job's record).
C1_IdsPairwiseDistinct ==
    \A i, j \in DOMAIN issued : i # j => issued[i].id # issued[j].id

\* C5: a get_job_status call made e seconds after the submission of the job
\* registered under the id returns PENDING when e < 2, RUNNING when 2 <= e < 5
\* and COMPLETED when e >= 5, whatever the script and the earlier polls were.
C5_StatusByElapsed ==
    (ret.op = "status" /\ ret.id \in DOMAIN jobs) =>
        LET e == ret.at - LastSubmitTime(ret.id)
        IN /\ (e < 2) => ret.val = "PENDING"
           /\ (2 <= e /\ e < 5) => ret.val = "RUNNING"
           /\ (e >= 5) => ret.val = "COMPLETED"

\* C5 witness: a poll exactly 5 seconds after submission returned COMPLETED.
C5_Witness ==
    /\ ret.op = "status" /\ ret.id \in DOMAIN jobs
    /\ ret.at - LastSubmitTime(ret.id) = 5
    /\ ret.val = "COMPLETED"

\* C6: once get_job_status has returned COMPLETED for the registered job,
\* get_job_output returns a non-empty text: the 42 result when the script
\* contains "python", the generic completion sentence otherwise.
C6_OutputAfterCompleted ==
    (ret.op = "output" /\ ret.id \in DOMAIN jobs /\ jobs[ret.id].status = "COMPLETED") =>
        /\ ret.val # ""
        /\ jobs[ret.id].script = ScriptPython => ret.val = "Result: 42 (Mock Output)"
        /\ jobs[ret.id].script = ScriptNear
              => ret.val = "Job completed successfully."

\* C6 witness: the output of a completed python job was fetched.
C6_Witness ==
    /\ ret.op = "output" /\ ret.id \in DOMAIN jobs
    /\ jobs[ret.id].status = "COMPLETED"
    /\ jobs[ret.id].script = ScriptPython
    /\ ret.val = "Result: 42 (Mock Output)"

\* the place of a state in the order PENDING < RUNNING < terminal
Rank(status) ==
    IF status = "PENDING" THEN 0 ELSE IF status = "RUNNING" THEN 1 ELSE 2

\* C11: for a given job id the states a poller is given, and the status
\* MockSlurmClient stores for the id, never move backwards in the order
\* PENDING < RUNNING < terminal.
C11_NeverBackwards ==
    [][\A id \in DOMAIN jobs :
          /\ Rank(jobs'[id].status) >= Rank(jobs[id].status)
          /\ (ret' # ret /\ ret'.op = "status" /\ ret'.id = id)
                => Rank(ret'.val) >= Rank(jobs[id].status)]_vars

\* C12: once the output stored under an id is not empty, no call of
\* submit_job, get_job_status or get_job_output changes or clears it.
C12_OutputWrittenOnce ==
    [][\A id \in DOMAIN jobs :
          jobs[id].output # "" => jobs'[id].output = jobs[id].output]_vars

\* C20: get_job_output changes nothing in the registry; for a registered job
\* whose polls have not returned COMPLETED it returns the empty string,
\* however long ago the job was submitted, and for an id that is not
\* registered it returns "No output available.".
C20_OutputReadOnly ==
    /\ [][(ret' # ret /\ ret'.op = "output") => jobs' = jobs]_vars
    /\ [](ret.op = "output" =>
            /\ ret.id \notin DOMAIN jobs => ret.val = "No output available."
            /\ (ret.id \in DOMAIN jobs /\ jobs[ret.id].status # "COMPLETED")
                  => ret.val = "")

\* C20 witness: the output of a registered job was asked for 5 seconds or
\* more after its submission, before any poll returned COMPLETED, and the
\* empty string came back.
C20_Witness ==
    /\ ret.op = "output" /\ ret.id \in DOMAIN jobs
    /\ ret.at - jobs[ret.id].submitted_at >= 5
    /\ jobs[ret.id].status # "COMPLETED"
    /\ ret.val = ""

---------------------------------------------------------------------------
(* Claims about ParamikoSlurmClient *)

NotFoundWords == <<"n", "o", "t", " ", "f", "o", "u", "n", "d">>
PartitionError == <<"i", "n", "v", "a", "l", "i", "d", " ", "p", "a", "r", "t", "i", "t", "i", "o", "n">>

\* C2: once get_job_status has returned a terminal state for an id, the next
\* get_job_status call for that id returns the same state, whatever the
\* scheduler and accounting did in between.
C2_TerminalIsFinal ==
    [][(/\ rret.op = "status" /\ rret.val \in TerminalTexts
        /\ rret'.op = "status" /\ rret'.id = rret.id)
       => rret'.val = rret.val]_vars

\* C3: get_job_status with an id that submit_job never returned gives UNKNOWN,
\* does not raise and leaves the registry as it was.
C3_UnknownIdSentinel ==
    (rret.op = "status" /\ rret.id \notin Range(rissued)) =>
        /\ rret.val = TxtUNKNOWN
        /\ ~rret.raised
        /\ job_files = rret.before

\* C7: get_job_status asks the active queue first and returns its state
\* without asking accounting; when the job is not in the queue it asks
\* accounting and returns the first token of its answer; when accounting has
\* nothing either it returns COMPLETED.
C7_StatusDerivation ==
    [][(rret' # rret /\ rret'.op = "status") =>
        LET id == rret'.id
            queued == id \in DOMAIN cluster /\ cluster[id].phase # LeftQueue
            recorded == id \in DOMAIN cluster /\ cluster[id].recorded
        IN /\ queued => rret'.val = cluster[id].phase /\ rret'.cmds = <<"squeue">>
           /\ (~queued /\ recorded) =>
                  rret'.val = cluster[id].final /\ rret'.cmds = <<"squeue", "sacct">>
           /\ (~queued /\ ~recorded) =>
                  rret'.val = TxtCOMPLETED /\ rret'.cmds = <<"squeue", "sacct">>]_vars

\* C7 witness: a job that timed out has left the queue, and the poll returned
\* the first token of the two accounting lines (TIMEOUT, then CANCELLED).
C7_Witness ==
    /\ rret.op = "status" /\ rret.cmds = <<"squeue", "sacct">>
    /\ rret.val = TxtTIMEOUT
    /\ rret.id \in DOMAIN cluster /\ cluster[rret.id].ran

\* the eight normalized states
NormalizedTexts == TerminalTexts \cup {TxtPENDING, TxtRUNNING, TxtUNKNOWN}

\* C15: every value get_job_status returns is one of the eight normalized
\* states, whatever the active queue and accounting answer.
C15_StatusIsNormalized ==
    rret.op = "status" => rret.val \in NormalizedTexts

\* C9: submit_job raises exactly when the upload raises, sbatch exits non-zero
\* or its output holds no job id; the error then carries the text of the
\* failure (the upload's error, sbatch's stderr, sbatch's output) and the
\* registry job_files is what it was before the call.
C9_FailedSubmitLeavesRegistry ==
    (rret.op = "submit") =>
        LET uploadError == rret.args[1]
            reply == rret.args[2]
        IN /\ rret.raised <=> (uploadError # <<>> \/ reply \in {"rejected", "silent"})
           /\ rret.raised => job_files = rret.before
           /\ ~rret.raised => rret.id \in DOMAIN job_files
           /\ uploadError # <<>> => Contains(rret.msg, uploadError)
           /\ (uploadError = <<>> /\ reply = "rejected") =>
                  /\ StartsWith(rret.msg, SbatchFailedPrefix)
                  /\ Contains(rret.msg, PartitionError)
           /\ (uploadError = <<>> /\ reply = "silent") => rret.msg = ParseFailedPrefix

\* C9 witness: sbatch rejected the script after an earlier job was registered.
C9_Witness ==
    /\ rret.op = "submit" /\ rret.raised
    /\ rret.args = <<<<>>, "rejected">>
    /\ job_files # <<>>

\* C4: a get_job_output call makes at most 10 SFTP reads, each followed by at
\* most one cat, and at most 9 sleeps, none after the last attempt; when all
\* 10 attempts fail it returns, without raising, a text that holds the
\* attempted filename and the words "not found".
C4_BoundedRetries ==
    /\ fetch.reads <= max_retries /\ fetch.cats <= fetch.reads
    /\ fetch.sleeps <= max_retries - 1 /\ fetch.sleeps <= fetch.reads
    /\ fetch.pc = "sftp" => fetch.sleeps = fetch.reads
    /\ rret.op = "output" =>
        /\ rret.reads \in 1..max_retries
        /\ rret.cats <= rret.reads
        /\ rret.sleeps = rret.reads - 1
        /\ ~rret.raised
        /\ ~rret.found =>
              /\ rret.reads = max_retries /\ rret.cats = max_retries
              /\ Contains(rret.val, OutputFileName(rret.id))
              /\ Contains(rret.val, NotFoundWords)

\* C4 witness: the file of a registered job never appeared: all 10 attempts
\* failed and the not-found text was returned.
C4_Witness ==
    /\ rret.op = "output" /\ ~rret.found
    /\ rret.id \in DOMAIN job_files
    /\ rret.reads = max_retries /\ rret.sleeps = max_retries - 1

\* the full text after "#SBATCH --output=" on the first such line of a script,
\* or slurm-%j.out when it has no such line
DirectiveText(script) ==
    LET lines == SplitLines(script)
        hits == {i \in DOMAIN lines : StartsWith(Strip(lines[i]), Directive)}
        line == Strip(lines[Min(hits)])
    IN IF hits = {} THEN DefaultPattern
       ELSE SubSeq(line, Len(Directive) + 1, Len(line))

\* C8: the filename get_job_output uses for job J is the full text after
\* "#SBATCH --output=" on the first such line of the submitted script (or
\* slurm-%j.out), with every %j replaced by J.
C8_OutputFileFromDirective ==
    (fetch.pc # "idle" /\ fetch.id \in DOMAIN job_files /\ fetch.id \in DOMAIN cluster) =>
        fetch.outfile = Replace(DirectiveText(cluster[fetch.id].script), Placeholder, fetch.id)

\* C16: the text submit_job wrote to a remote path with the file-write
\* primitive, read back from that path by get_job_output (by its SFTP read
\* or by its cat fallback) with no other write in between, comes back
\* identical.
C16_RoundTrip ==
    (/\ rret.op = "output" /\ rret.found
     /\ OutputFileName(rret.id) = ScriptFileName(now)
     /\ ScriptFileName(now) \in DOMAIN rfiles)
        => rret.val = rfiles[ScriptFileName(now)]

\* C19: whatever the interleaving of the uploads and sbatch commands of two
\* instances, the job scheduled by a submit_job call runs the script text
\* that was passed to that call.
C19_JobRunsItsScript ==
    \A c \in DOMAIN clients :
        (clients[c].pc = "done" /\ ~clients[c].raised) =>
            cluster[clients[c].job_id].script = clients[c].script

---------------------------------------------------------------------------
(* Claims about AtomGPTAgent.run_job *)

\* C10: in a run of run_job, get_job_status and get_job_output are never
\* called when submit_job raised; get_job_output is called only after a poll
\* returned COMPLETED; and a run that returned gives the fetched output text
\* exactly when the last poll returned COMPLETED, and None after a failed
\* generation, a declined prompt, a failed submission, an interrupt, or a
\* final state FAILED, CANCELLED, TIMEOUT or NODE_FAIL.
C10_RunJobOutcome ==
    /\ agent.submitRaised => ~agent.polled /\ ~agent.fetched /\ agent.retval = None
    /\ agent.fetched => agent.sawCompleted /\ agent.status = TxtCOMPLETED
    /\ agent.pc = "returned" =>
        /\ agent.retval.some <=> agent.status = TxtCOMPLETED
        /\ agent.retval.some =>
              /\ agent.fetched
              /\ rret.op = "output" /\ rret.id = agent.job_id
              /\ agent.retval.text = rret.val
        /\ agent.why \in {"generation", "declined", "submit", "interrupted"}
              => agent.retval = None
        /\ agent.status \in {TxtFAILED, TxtCANCELLED, TxtTIMEOUT, TxtNODE_FAIL}
              => agent.retval = None /\ ~agent.fetched
        /\ agent.why # "completed" => ~agent.fetched

\* C14: an interrupt in the monitoring loop ends the run at once: run_job
\* returns None, polls no more and never calls get_job_output for the job,
\* the registry and the remote side are left as they were, and the command
\* loop can take the next request.
C14_InterruptAbortsCleanly ==
    /\ [][(agent.pc \in {"poll", "sleep"} /\ agent'.why = "interrupted") =>
            /\ agent'.pc = "returned" /\ agent'.retval = None
            /\ job_files' = job_files /\ cluster' = cluster /\ rfiles' = rfiles
            /\ rret' = rret /\ fetch' = fetch]_vars
    /\ [](agent.why = "interrupted" =>
            /\ agent.pc = "returned" /\ agent.retval = None
            /\ ~agent.fetched /\ fetch = FetchIdle
            /\ ENABLED NextRequest)

\* C14 witness: monitoring was interrupted after a poll had returned RUNNING
\* for the registered job.
C14_Witness ==
    /\ agent.why = "interrupted" /\ agent.polled
    /\ agent.status = TxtRUNNING
    /\ agent.job_id \in DOMAIN job_files

\* C18: when polls are taken and the job leaves the active queue for good,
\* the monitoring loop of run_job always exits; and a poll of a job that is
\* in neither the queue nor accounting ends the loop with COMPLETED.
C18_MonitoringExits ==
    /\ [](agent.pc \in {"poll", "sleep"} => <>(agent.pc \notin {"poll", "sleep"}))
    /\ [][(/\ agent.pc = "poll" /\ agent' # agent /\ agent'.why # "interrupted"
           /\ agent.job_id \in DOMAIN cluster
           /\ cluster[agent.job_id].phase = LeftQueue
           /\ ~cluster[agent.job_id].recorded)
          => (agent'.status = TxtCOMPLETED /\ agent'.pc = "fetch")]_vars

\* C18 witness: the loop was left with COMPLETED for a job that had run and
\* left the queue, and that accounting had not recorded.
C18_Witness ==
    /\ agent.pc = "fetch" /\ agent.status = TxtCOMPLETED
    /\ agent.job_id \in DOMAIN cluster
    /\ cluster[agent.job_id].phase = LeftQueue
    /\ cluster[agent.job_id].ran
    /\ ~cluster[agent.job_id].recorded

\* C10 witness: run_job returned the text of the output file of a completed
\* job.
C10_Witness ==
    /\ agent.pc = "returned" /\ agent.retval.some
    /\ agent.status = TxtCOMPLETED
    /\ rret.found

---------------------------------------------------------------------------
(* Claims about the drivers *)

\* no operation of the client has been invoked, and nothing was sent to the
\* remote side
NoJobOperation ==
    /\ rret = NoCall /\ fetch = FetchIdle /\ rissued = <<>>
    /\ job_files = <<>> /\ rfiles = <<>> /\ cluster = <<>>

\* C13: connect makes one connection attempt and returns False, without
\* raising or trying again, when the attempt fails; and neither driver
\* invokes submit_job, get_job_status or get_job_output on a client whose
\* connect returned False (or was not called yet).
C13_NoOperationUnconnected ==
    /\ conn.calls <= 1 /\ conn.attempts = conn.calls /\ ~conn.raised
    /\ conn.outcome \in {"refused", "nosftp"} => conn.returned = "False"
    /\ conn.outcome = "ok" => conn.returned = "True"
    /\ conn.returned # "True" =>
          /\ NoJobOperation
          /\ agent.pc \in {"init", "exited", "off"}
          /\ demo.pc \in {"start", "returned", "off"}
          /\ ~agent.polled /\ ~agent.fetched /\ ~demo.polled /\ ~demo.fetched

\* C13 witness: the SFTP channel could not be opened, connect returned False
\* and the agent's process exited.
C13_Witness ==
    /\ conn.outcome = "nosftp" /\ conn.returned = "False" /\ conn.attempts = 1
    /\ agent.pc = "exited"

\* C17: in both polling loops a poll that returns one of the five terminal
\* states is the last poll of the job, and a poll that returns any other
\* state is followed by a sleep and another poll.
C17_PollingStopsAtTerminal ==
    /\ (agent.polled /\ agent.pc \in {"poll", "sleep"}) => agent.status \notin TerminalTexts
    /\ (demo.polled /\ demo.pc \in {"poll", "sleep"}) => demo.status \notin TerminalTexts
    /\ (agent.polled /\ agent.pc \notin {"poll", "sleep"} /\ agent.why # "interrupted")
          => agent.status \in TerminalTexts
    /\ (demo.polled /\ demo.pc \notin {"poll", "sleep"}) => demo.status \in TerminalTexts

=============================================================================
